---- MODULE Spec2Model ----
(***************************************************************************)
(* A model of deploypyfiles.py: discovery of deployables, the dependency   *)
(* closure, the destination mapping, materialization and the archive.      *)
(*                                                                         *)
(* A file name is a record [stem, suffix] (pathlib's Path.stem and         *)
(* Path.suffix of a name without inner dots), a path is a sequence of      *)
(* names, and the bytes of a file are its sequence of lines.  A line is a  *)
(* record [k, arg]: k says what the line starts with and arg is the token  *)
(* the program reads from it.                                              *)
(***************************************************************************)
EXTENDS Integers, Sequences, FiniteSets, TLC

VARIABLES
    src,        \* the source directory: file name -> lines
    tmpl,       \* the directory of templates["DEFAULT"]: file name -> lines
    hasTemplate,\* whether prj.templates has a "DEFAULT" entry
    out,        \* the file system below the target: path -> node
    archive,    \* prj.archive, a sequence of directory names
    today,      \* the UTC day, an index into DayNames
    runs,       \* how many times main has run
    exitCode,   \* what the last main returned
    proceeded,  \* whether the last main reached deploy
    last,       \* the record of the last deploy_file call
    prev,       \* the record of the deploy_file call before it
    outBefore,  \* out when the last deploy_file call started
    dirty,      \* a source or template file was edited since the last call
    editedBetween, \* a file was edited between prev and last
    gdpc, queue, deps, qi,   \* get_dependencies: position, queue, deps, index
    fdpc, lines, found       \* find_deployables on one file: position, lines, result

vars == <<src, tmpl, hasTemplate, out, archive, today, runs, exitCode, proceeded,
          last, prev, outBefore, dirty, editedBetween,
          gdpc, queue, deps, qi, fdpc, lines, found>>

deployVars == <<src, tmpl, hasTemplate, out, archive, today, runs, exitCode,
                proceeded, last, prev, outBefore, dirty, editedBetween>>
gdVars == <<gdpc, queue, deps, qi>>
fdVars == <<fdpc, lines, found>>

----------------------------------------------------------------------------
(* Bounds of the model *)

MaxRuns == 2
MaxDay == 2
MaxLines == 6

(* Program constants *)

Window == 5

----------------------------------------------------------------------------
(* Names, paths and lines *)

Name(s, x) == [stem |-> s, suffix |-> x]
Line(k, a) == [k |-> k, arg |-> a]

None == "None"

Parent(p) == SubSeq(p, 1, Len(p) - 1)
Leaf(p) == p[Len(p)]
IsPrefix(a, p) == Len(a) <= Len(p) /\ SubSeq(p, 1, Len(a)) = a

InSeq(x, s) == \E i \in 1..Len(s) : s[i] = x
NoDuplicates(s) == \A i, j \in 1..Len(s) : s[i] = s[j] => i = j

WithStem(p, s) == [p EXCEPT ![Len(p)] = Name(s, @.suffix)]

DirNode == [kind |-> "dir", data |-> <<>>]
FileNode(bytes) == [kind |-> "file", data |-> bytes]

Exists(fs, p) == p \in DOMAIN fs
IsDir(fs, p) == p \in DOMAIN fs /\ fs[p].kind = "dir"
IsFile(fs, p) == p \in DOMAIN fs /\ fs[p].kind = "file"

WriteBytes(fs, p, bytes) ==
    [q \in DOMAIN fs \cup {p} |-> IF q = p THEN FileNode(bytes) ELSE fs[q]]

----------------------------------------------------------------------------
(* get_dependencies *)

IsImportLine(line) == line.k \in {"import", "from"}

\* The test without "mod_path not in deps".
NotRecordedAlways(mod_path, ds) == TRUE

NotRecorded(mod_path, ds) == ~InSeq(mod_path, ds)

\* The stub file of a .py file, recorded without being scanned.
StubDeps(path) ==
    IF path.suffix = ".py" /\ Name(path.stem, ".pyi") \in DOMAIN src
    THEN <<Name(path.stem, ".pyi")>>
    ELSE <<>>

\* The inner loop over the lines of one queued file; st = [deps, queue].
RECURSIVE ScanLines(_, _, _)
ScanLines(ls, i, st) ==
    IF i > Len(ls) THEN st
    ELSE IF ~IsImportLine(ls[i]) THEN ScanLines(ls, i + 1, st)
    ELSE LET mod_path == Name(ls[i].arg, ".py") IN
         IF mod_path \in DOMAIN src /\ NotRecorded(mod_path, st.deps)
         THEN ScanLines(ls, i + 1, [deps |-> Append(st.deps, mod_path),
                                    queue |-> Append(st.queue, mod_path)])
         ELSE ScanLines(ls, i + 1, st)

\* The outer loop "for path in queue", the queue growing while it is walked.
RECURSIVE GdLoop(_, _)
GdLoop(st, i) ==
    IF i > Len(st.queue) THEN st.deps
    ELSE GdLoop(ScanLines(src[st.queue[i]], 1, st), i + 1)

GetDependencies(path) == GdLoop([deps |-> StubDeps(path), queue |-> <<path>>], 1)

----------------------------------------------------------------------------
(* find_deployables, for one file *)

IsDeclaration(line) == line.k \in {"DEPLOY_TARGET", "DEPLOYMENT_DESTINATION"}

Min(a, b) == IF a < b THEN a ELSE b

\* The loop without its break: a later declaration overrides an earlier one.
RECURSIVE ScanWindowLast(_, _)
ScanWindowLast(ls, i) ==
    IF i > Min(Len(ls), Window) THEN None
    ELSE LET later == ScanWindowLast(ls, i + 1) IN
         IF later # None THEN later
         ELSE IF IsDeclaration(ls[i]) THEN ls[i].arg
         ELSE None

\* for line in lines[:5]: the first declaration sets destination, then break.
RECURSIVE ScanWindow(_, _)
ScanWindow(ls, i) ==
    IF i > Min(Len(ls), Window) THEN None
    ELSE IF IsDeclaration(ls[i]) THEN ls[i].arg
    ELSE ScanWindow(ls, i + 1)

IsPythonFile(name, ls) ==
    name.suffix = ".py" \/ (Len(ls) > 0 /\ ls[1].k = "shebang")

\* What find_deployables yields for a file reached through a directory
\* (guess_destination = False): its declared destination, or None.
DeclaredDestination(name, ls) ==
    IF IsPythonFile(name, ls) THEN ScanWindow(ls, 1) ELSE None

----------------------------------------------------------------------------
(* deploy_file: the destination and the mapping *)

SrcId(n) == [tree |-> "src", name |-> n]
TmplId(n) == [tree |-> "tmpl", name |-> n]

ReadBytes(s) == IF s.tree = "src" THEN src[s.name] ELSE tmpl[s.name]

\* destination_root and main_destination, or the failure to find the path.
Resolve(fs, main, destination) ==
    IF IsDir(fs, destination)
    THEN [ok |-> TRUE, root |-> destination, mainDest |-> Append(destination, main)]
    ELSE IF IsDir(fs, Parent(destination))
    THEN [ok |-> TRUE, root |-> Parent(destination), mainDest |-> destination]
    ELSE [ok |-> FALSE, root |-> <<>>, mainDest |-> <<>>]

\* dest of the main file or of a dependency (both lie in source_root).
SourceDest(root, main, mainDest, name) ==
    IF name.stem = main.stem
    THEN WithStem(Append(root, name), Leaf(mainDest).stem)
    ELSE Append(root, name)

\* The template loop without its stem rule.
TemplateDestKeepStem(root, main, mainDest, name) == Append(root, name)

\* deploy_script, which nothing calls, renames in the template only the
\* placeholder stem, and to the stem of its target directory.
ScriptTemplateDest(target_root, name) ==
    IF name.stem = "TARGET"
    THEN WithStem(Append(target_root, name), Leaf(target_root).stem)
    ELSE Append(target_root, name)

\* dest of an entry of the template directory.
TemplateDest(root, main, mainDest, name) ==
    IF name.stem = main.stem
    THEN WithStem(Append(root, name), Leaf(mainDest).stem)
    ELSE Append(root, name)

\* The mapping is a dict in insertion order: a sequence of [dest, source].
HasKey(m, d) == \E i \in 1..Len(m) : m[i].dest = d
Keys(m) == [i \in 1..Len(m) |-> m[i].dest]

SetItem(m, d, s) ==
    IF HasKey(m, d)
    THEN [i \in 1..Len(m) |-> IF m[i].dest = d THEN [dest |-> d, source |-> s] ELSE m[i]]
    ELSE Append(m, [dest |-> d, source |-> s])

\* The loop without the collision test: a later source takes the key.
CollidesNever(m, d) == FALSE

\* "if dest in mapping": the path collision test.
Collides(m, d) == HasKey(m, d)

RECURSIVE AddSources(_, _, _, _, _, _)
AddSources(names, i, m, root, main, mainDest) ==
    IF i > Len(names) THEN [ok |-> TRUE, mapping |-> m]
    ELSE LET dest == SourceDest(root, main, mainDest, names[i]) IN
         IF Collides(m, dest) THEN [ok |-> FALSE, mapping |-> m]
         ELSE AddSources(names, i + 1, SetItem(m, dest, SrcId(names[i])),
                         root, main, mainDest)

\* iterdir: the visible entries of a directory, sorted by their string.
HiddenStems == {"_h"}
LexOrder == <<Name("TARGET", ".cfg"), Name("_h", ".cfg"), Name("a", ".cfg"),
              Name("b", ".py"), Name("w", ".cfg")>>
Iterdir(dir) ==
    SelectSeq(LexOrder, LAMBDA n : n \in DOMAIN dir /\ n.stem \notin HiddenStems)

RECURSIVE AddTemplate(_, _, _, _, _, _)
AddTemplate(names, i, m, root, main, mainDest) ==
    IF i > Len(names) THEN m
    ELSE LET dest == TemplateDest(root, main, mainDest, names[i]) IN
         AddTemplate(names, i + 1,
                     IF HasKey(m, dest) THEN m ELSE SetItem(m, dest, TmplId(names[i])),
                     root, main, mainDest)

----------------------------------------------------------------------------
(* deploy_file: materialization *)

\* The choice without the comparison of bytes: every regular file is updated.
ClassifyNoCompare(fs, dest, bytes) ==
    IF IsFile(fs, dest) THEN "update"
    ELSE IF Exists(fs, dest) THEN "error"
    ELSE "new"

\* The choice without the "elif dest.exists()" branch.
ClassifyTakenAsNew(fs, dest, bytes) ==
    IF IsFile(fs, dest)
    THEN (IF fs[dest].data = bytes THEN "unchanged" ELSE "update")
    ELSE "new"

\* The action chosen for one entry (None is written "unchanged").
Classify(fs, dest, bytes) ==
    IF IsFile(fs, dest)
    THEN (IF fs[dest].data = bytes THEN "unchanged" ELSE "update")
    ELSE IF Exists(fs, dest) THEN "error"
    ELSE "new"

Writes(action) == action = "new" \/ action = "update"

\* st = [fs, outcomes, updated, writes]; writes counts the write_bytes calls.
RECURSIVE Materialize(_, _, _)
Materialize(m, i, st) ==
    IF i > Len(m) THEN st
    ELSE LET bytes == ReadBytes(m[i].source)
             action == Classify(st.fs, m[i].dest, bytes)
         IN Materialize(m, i + 1,
                [fs |-> IF Writes(action) THEN WriteBytes(st.fs, m[i].dest, bytes)
                        ELSE st.fs,
                 outcomes |-> Append(st.outcomes, action),
                 updated |-> st.updated \/ Writes(action),
                 writes |-> st.writes + (IF Writes(action) THEN 1 ELSE 0)])

----------------------------------------------------------------------------
(* deploy_file: the archive *)

DayNames == <<"2026-11-05", "2026-11-06", "2026-11-07", "2026-11-08">>
Today(day) == Name(DayNames[day], "")

ArchivePath(root, slot, day) == root \o <<slot, Today(day)>>

\* The archive without rmtree: the snapshot of the day is merged into.
RmtreeKeep(fs, p) == fs

\* rmtree(path, ignore_errors=True): a directory goes with all below it.
Rmtree(fs, p) ==
    IF IsDir(fs, p)
    THEN [q \in {x \in DOMAIN fs : ~IsPrefix(p, x)} |-> fs[q]]
    ELSE fs

Prefixes(p) == {SubSeq(p, 1, k) : k \in 1..Len(p)}

\* mkdir(exist_ok=True, parents=True) raises when a file is in the way.
MkdirRaises(fs, p) == \E q \in Prefixes(p) : IsFile(fs, q)
Mkdir(fs, p) ==
    [q \in DOMAIN fs \cup Prefixes(p) |-> IF q \in DOMAIN fs THEN fs[q] ELSE DirNode]

RECURSIVE CopyAll(_, _, _, _, _)
CopyAll(m, i, fs, root, apath) ==
    IF i > Len(m) THEN fs
    ELSE CopyAll(m, i + 1,
                 WriteBytes(fs, apath \o SubSeq(m[i].dest, Len(root) + 1, Len(m[i].dest)),
                            ReadBytes(m[i].source)),
                 root, apath)

\* st = [fs, raised, archived]
RECURSIVE ArchiveAll(_, _, _, _, _, _)
ArchiveAll(slots, j, m, root, day, st) ==
    IF j > Len(slots) THEN st
    ELSE LET apath == ArchivePath(root, slots[j], day)
             cleared == Rmtree(st.fs, apath)
         IN IF MkdirRaises(cleared, apath)
            THEN [fs |-> cleared, raised |-> TRUE, archived |-> st.archived]
            ELSE ArchiveAll(slots, j + 1, m, root, day,
                            [fs |-> CopyAll(m, 1, Mkdir(cleared, apath), root, apath),
                             raised |-> FALSE,
                             archived |-> Append(st.archived, apath)])

----------------------------------------------------------------------------
(* deploy_file *)

\* What one call did: result is "notfound", "collision", "ok", or "raised"
\* when an exception left the call; fs is the file system it leaves.
CallRecord(result, main, r, sources, m, mat, archived, fs, day) ==
    [result |-> result, main |-> main, root |-> r.root, mainDest |-> r.mainDest,
     sources |-> sources, mapping |-> m, outcomes |-> mat.outcomes,
     updated |-> mat.updated, writes |-> mat.writes,
     archived |-> archived, fs |-> fs, day |-> day]

NoOutcomes(fs) == [fs |-> fs, outcomes |-> <<>>, updated |-> FALSE, writes |-> 0]

DeployFile(fs, main, destination, day) ==
    LET r == Resolve(fs, main, destination) IN
    IF ~r.ok
    THEN CallRecord("notfound", main, r, <<>>, <<>>, NoOutcomes(fs), <<>>, fs, day)
    ELSE
    LET sources == <<main>> \o GetDependencies(main)
        b == AddSources(sources, 1, <<>>, r.root, main, r.mainDest)
    IN
    IF ~b.ok
    THEN CallRecord("collision", main, r, sources, <<>>, NoOutcomes(fs), <<>>, fs, day)
    ELSE
    LET m == IF hasTemplate
             THEN AddTemplate(Iterdir(tmpl), 1, b.mapping, r.root, main, r.mainDest)
             ELSE b.mapping
        mat == Materialize(m, 1, NoOutcomes(fs))
    IN IF archive = <<>> \/ ~mat.updated
       THEN CallRecord("ok", main, r, sources, m, mat, <<>>, mat.fs, day)
       ELSE LET a == ArchiveAll(archive, 1, m, r.root, day,
                                [fs |-> mat.fs, raised |-> FALSE, archived |-> <<>>])
            IN CallRecord(IF a.raised THEN "raised" ELSE "ok", main, r, sources, m,
                          mat, a.archived, a.fs, day)

----------------------------------------------------------------------------
(* deploy and main *)

MainFile == Name("a", ".py")
Target == <<Name("out", "")>>

\* Path(literal_eval(...)) of the declared destinations the model uses.
ParsePath(text) ==
    CASE text = "w" -> <<Name("w", "")>>
      [] text = "sub" -> <<Name("sub", "")>>
      [] text = "bak" -> <<Name("bak", "")>>
      [] text = "nodir/w" -> <<Name("nodir", ""), Name("w", "")>>

\* find_deployables over the source directory: the files that declare a
\* destination, in the order the directory lists them.
SrcOrder == <<Name("a", ".py"), Name("a", ".pyi"), Name("b", ".py"), Name("w", ".py")>>
FindDeployables ==
    LET found_ == SelectSeq(SrcOrder, LAMBDA n :
                     n \in DOMAIN src /\ DeclaredDestination(n, src[n]) # None)
    IN [i \in 1..Len(found_) |->
           [source |-> found_[i],
            destination |-> ParsePath(DeclaredDestination(found_[i], src[found_[i]]))]]

NoCall ==
    CallRecord("none", MainFile, [root |-> <<>>, mainDest |-> <<>>], <<>>, <<>>,
               NoOutcomes(<<>>), <<>>, <<>>, 0)

\* The loop of deploy over the deployables, for the one target;
\* st = [fs, before, prev, last, raised].
RECURSIVE DeployLoop(_, _, _, _)
DeployLoop(ds, i, day, st) ==
    IF i > Len(ds) \/ st.raised THEN st
    ELSE LET rec == DeployFile(st.fs, ds[i].source, Target \o ds[i].destination, day)
         IN DeployLoop(ds, i + 1, day,
                       [fs |-> rec.fs, before |-> st.fs, prev |-> st.last,
                        last |-> rec, raised |-> rec.result = "raised"])

\* deploy ends with "return None" whatever deploy_file returned.
DeployReturn == None

Truthy(v) == v = "True"

\* "return 0 if success else 1"
MainReturn(success) == IF Truthy(success) THEN 0 ELSE 1

\* main: errors says whether run_tests reported a failure, answer is what the
\* operator types at the prompt.
Main(errors, answer) ==
    /\ runs < MaxRuns
    /\ runs' = runs + 1
    /\ IF errors /\ answer # "y"
       THEN /\ exitCode' = 1
            /\ proceeded' = FALSE
            /\ UNCHANGED <<out, last, prev, outBefore, dirty, editedBetween>>
       ELSE LET st == DeployLoop(FindDeployables, 1, today,
                                 [fs |-> out, before |-> out, prev |-> prev,
                                  last |-> last, raised |-> FALSE])
            IN /\ out' = st.fs
               /\ outBefore' = st.before
               /\ prev' = st.prev
               /\ last' = st.last
               /\ proceeded' = TRUE
               /\ exitCode' = IF st.raised THEN 1 ELSE MainReturn(DeployReturn)
               /\ editedBetween' = dirty
               /\ dirty' = FALSE
    /\ UNCHANGED <<src, tmpl, hasTemplate, archive, today, gdVars, fdVars>>

----------------------------------------------------------------------------
(* What happens between two runs: an edit of a file, a new day *)

Flip(line) == IF line.k = "text"
              THEN Line("text", IF line.arg = "x" THEN "y" ELSE "x")
              ELSE line
Touched(ls) == [i \in 1..Len(ls) |-> Flip(ls[i])]

BetweenRuns == runs >= 1 /\ runs < MaxRuns /\ proceeded /\ ~dirty

TouchSource(n) ==
    /\ BetweenRuns
    /\ n \in DOMAIN src
    /\ src' = [src EXCEPT ![n] = Touched(@)]
    /\ dirty' = TRUE
    /\ UNCHANGED <<tmpl, hasTemplate, out, archive, today, runs, exitCode, proceeded,
                   last, prev, outBefore, editedBetween, gdVars, fdVars>>

TouchTemplate(n) ==
    /\ BetweenRuns
    /\ hasTemplate
    /\ n \in DOMAIN tmpl
    /\ tmpl' = [tmpl EXCEPT ![n] = Touched(@)]
    /\ dirty' = TRUE
    /\ UNCHANGED <<src, hasTemplate, out, archive, today, runs, exitCode, proceeded,
                   last, prev, outBefore, editedBetween, gdVars, fdVars>>

DropImports ==
    /\ BetweenRuns
    /\ \E i \in 1..Len(src[MainFile]) : IsImportLine(src[MainFile][i])
    /\ src' = [src EXCEPT ![MainFile] = SelectSeq(@, LAMBDA l : ~IsImportLine(l))]
    /\ dirty' = TRUE
    /\ UNCHANGED <<tmpl, hasTemplate, out, archive, today, runs, exitCode, proceeded,
                   last, prev, outBefore, editedBetween, gdVars, fdVars>>

NextDay ==
    /\ BetweenRuns
    /\ today < MaxDay
    /\ today' = today + 1
    /\ UNCHANGED <<src, tmpl, hasTemplate, out, archive, runs, exitCode, proceeded,
                   last, prev, outBefore, dirty, editedBetween, gdVars, fdVars>>

----------------------------------------------------------------------------
(* The project the runs start from *)

Imports(k, ms) == [i \in 1..Len(ms) |-> Line(k, ms[i])]
Text(t) == <<Line("text", t)>>

DeclChoices == {"w", "sub", "bak", "nodir/w"}
MainImportChoices == {<<>>, <<"a">>, <<"b">>, <<"b", "w">>}
OtherImportChoices == {<<>>, <<"a">>}

SrcDir(decl, ia, ib, stub) ==
    LET base == (MainFile :> (<<Line("DEPLOY_TARGET", decl)>> \o Imports("import", ia)
                              \o Text("x")))
                @@ (Name("b", ".py") :> (Imports("from", ib) \o Text("x")))
                @@ (Name("w", ".py") :> Text("x"))
    IN IF stub THEN (Name("a", ".pyi") :> Text("x")) @@ base ELSE base

TemplateChoices ==
    { [on |-> FALSE, dir |-> <<>>],
      [on |-> TRUE, dir |-> (Name("TARGET", ".cfg") :> Text("x"))
                            @@ (Name("a", ".cfg") :> Text("x"))],
      [on |-> TRUE, dir |-> (Name("a", ".cfg") :> Text("x"))
                            @@ (Name("w", ".cfg") :> Text("y"))
                            @@ (Name("_h", ".cfg") :> Text("x"))
                            @@ (Name("b", ".py") :> Text("y"))] }

EmptyTree == (Target :> DirNode) @@ (Append(Target, Name("sub", "")) :> DirNode)
\* Below <target>/sub and for a destination that is not found, what else
\* lies in the target makes no difference: those start from the empty tree.
TreeChoices(decl, ib) ==
    IF decl \in {"sub", "nodir/w"} THEN {EmptyTree}
    ELSE IF decl = "bak"
    THEN {EmptyTree, (Append(Target, Name("bak", "")) :> FileNode(Text("old"))) @@ EmptyTree}
    ELSE
    { EmptyTree,
      (Append(Target, Name("w", ".py")) :> FileNode(Text("old")))
         @@ (Append(Target, Name("b", ".py")) :> FileNode(Imports("from", ib) \o Text("x")))
         @@ (Append(Target, Name("w", ".pyi")) :> DirNode)
         @@ EmptyTree,
      (Append(Target, Name("b", ".py")) :> DirNode) @@ EmptyTree,
      (Append(Target, Name("bak", "")) :> FileNode(Text("old"))) @@ EmptyTree }

ArchiveChoices == {<<>>, <<Name("bak", "")>>}

GdIdle == gdpc = "idle" /\ queue = <<>> /\ deps = <<>> /\ qi = 0
FdIdle == fdpc = "idle" /\ lines = <<>> /\ found = None

DeployIdle ==
    /\ hasTemplate = FALSE /\ tmpl = <<>> /\ out = EmptyTree /\ archive = <<>>
    /\ today = 1 /\ runs = 0 /\ exitCode = 0 /\ proceeded = FALSE
    /\ last = NoCall /\ prev = NoCall /\ outBefore = EmptyTree
    /\ dirty = FALSE /\ editedBetween = FALSE

Init ==
    /\ \E decl \in DeclChoices, ia \in MainImportChoices, ib \in OtherImportChoices,
          stub \in BOOLEAN :
          /\ src = SrcDir(decl, ia, ib, stub)
          /\ out \in TreeChoices(decl, ib)
    /\ \E t \in TemplateChoices : hasTemplate = t.on /\ tmpl = t.dir
    /\ archive \in ArchiveChoices
    /\ today = 1 /\ runs = 0 /\ exitCode = 0 /\ proceeded = FALSE
    /\ last = NoCall /\ prev = NoCall /\ outBefore = out
    /\ dirty = FALSE /\ editedBetween = FALSE
    /\ GdIdle /\ FdIdle

Next ==
    \/ \E errors \in BOOLEAN, answer \in {"y", "n"} : Main(errors, answer)
    \/ \E n \in {MainFile, Name("b", ".py")} : TouchSource(n)
    \/ \E n \in {Name("a", ".cfg")} : TouchTemplate(n)
    \/ DropImports
    \/ NextDay

Spec == Init /\ [][Next]_vars

----------------------------------------------------------------------------
(* get_dependencies, step by step: one step scans one queued file *)

GdImportChoices == {<<>>, <<"a">>, <<"b">>, <<"w">>, <<"b", "w">>, <<"zz", "b", "b">>}

QueueCap == Cardinality(DOMAIN src) + 1

GdInit ==
    /\ \E ia \in GdImportChoices, ib \in GdImportChoices, iw \in GdImportChoices,
          stub \in BOOLEAN :
          src = (Name("w", ".py") :> (Imports("import", iw) \o Text("x")))
                @@ [SrcDir("w", ia, <<>>, stub) EXCEPT
                       ![Name("b", ".py")] = Imports("from", ib) \o Text("x")]
    /\ gdpc = "scan"
    /\ queue = <<MainFile>>
    /\ deps = StubDeps(MainFile)
    /\ qi = 1
    /\ DeployIdle /\ FdIdle

GdScan ==
    /\ gdpc = "scan"
    /\ qi <= Len(queue)
    /\ Len(queue) <= QueueCap
    /\ LET st == ScanLines(src[queue[qi]], 1, [deps |-> deps, queue |-> queue])
       IN deps' = st.deps /\ queue' = st.queue
    /\ qi' = qi + 1
    /\ UNCHANGED <<gdpc, deployVars, fdVars>>

GdReturn ==
    /\ gdpc = "scan"
    /\ qi > Len(queue)
    /\ gdpc' = "done"
    /\ UNCHANGED <<queue, deps, qi, deployVars, fdVars>>

GdNext == GdScan \/ GdReturn

SpecDeps == GdInit /\ [][GdNext]_vars /\ WF_vars(GdNext)

----------------------------------------------------------------------------
(* find_deployables on the lines of one file *)

FdName == Name("job", ".py")
FdLineChoices == {Line("DEPLOY_TARGET", "w"), Line("DEPLOYMENT_DESTINATION", "sub"),
                  Line("text", "x")}

FdInit ==
    /\ \E n \in 0..MaxLines : lines \in [1..n -> FdLineChoices]
    /\ fdpc = "start"
    /\ found = None
    /\ src = SrcDir("w", <<>>, <<>>, FALSE)
    /\ DeployIdle /\ GdIdle

FdScan ==
    /\ fdpc = "start"
    /\ found' = DeclaredDestination(FdName, lines)
    /\ fdpc' = "done"
    /\ UNCHANGED <<lines, deployVars, gdVars>>

FdNext == FdScan

SpecFind == FdInit /\ [][FdNext]_vars

----------------------------------------------------------------------------
(* Properties of deploy_file, stated on the record of the last call *)

Built(rec) == rec.result \in {"ok", "raised"}
TwoCalls == prev.result # "none" /\ last.result # "none"

\* Two of the sources (the main file and its dependencies) get the same key.
SameKey(rec) ==
    \E i, j \in 1..Len(rec.sources) :
        /\ i < j
        /\ SourceDest(rec.root, rec.main, rec.mainDest, rec.sources[i])
             = SourceDest(rec.root, rec.main, rec.mainDest, rec.sources[j])

\* Two different sources get the same key.
DistinctSameKey(rec) ==
    \E i, j \in 1..Len(rec.sources) :
        /\ rec.sources[i] # rec.sources[j]
        /\ SourceDest(rec.root, rec.main, rec.mainDest, rec.sources[i])
             = SourceDest(rec.root, rec.main, rec.mainDest, rec.sources[j])

\* C1: the keys of a built mapping are pairwise different, and when two
\* sources get the same key the call reports a collision and writes no file,
\* neither below the destination nor into an archive.
C1_KeysUniqueCollisionWritesNothing ==
    /\ Built(last) => NoDuplicates(Keys(last.mapping))
    /\ SameKey(last) =>
          /\ last.result = "collision"
          /\ last.mapping = <<>> /\ last.writes = 0 /\ last.archived = <<>>
          /\ out = outBefore

C1_Witness ==
    /\ last.result = "collision"
    /\ DistinctSameKey(last)
    /\ out = outBefore

\* C9: a call whose only repeated key comes from reaching one source twice
\* (the main file in its own dependency closure) is not a collision.
C9_SameSourceIsNoCollision ==
    (last.result # "none" /\ ~DistinctSameKey(last)) => last.result # "collision"

\* The destination the stem rule gives a source or template entry.
ExpectedName(rec, name) ==
    IF name.stem = rec.main.stem
    THEN Name(Leaf(rec.mainDest).stem, name.suffix)
    ELSE name

Renamed(rec) == Built(rec) /\ Leaf(rec.mainDest).stem # rec.main.stem

\* C7: when the main destination's stem differs from the main source's stem,
\* every entry whose source has the main source's stem is mapped under the
\* main destination's stem, every other entry under its own name, and every
\* dependency and every visible template entry has its key in the mapping.
C7_StemRewriting ==
    Renamed(last) =>
       /\ \A i \in 1..Len(last.mapping) :
             last.mapping[i].dest
               = Append(last.root, ExpectedName(last, last.mapping[i].source.name))
       /\ \A i \in 1..Len(last.sources) :
             \E k \in 1..Len(last.mapping) :
                 last.mapping[k].source = SrcId(last.sources[i])
       /\ hasTemplate =>
             \A n \in DOMAIN tmpl :
                 n.stem \notin HiddenStems =>
                     HasKey(last.mapping, Append(last.root, ExpectedName(last, n)))

C7_Witness ==
    /\ Renamed(last)
    /\ \E i, j, k \in 1..Len(last.mapping) :
          /\ last.mapping[i].source = TmplId(Name("a", ".cfg"))
          /\ last.mapping[i].dest = Append(last.root, Name("w", ".cfg"))
          /\ last.mapping[j].source = SrcId(Name("a", ".pyi"))
          /\ last.mapping[j].dest = Append(last.root, Name("w", ".pyi"))
          /\ last.mapping[k].source = SrcId(Name("b", ".py"))
          /\ last.mapping[k].dest = Append(last.root, Name("b", ".py"))

\* C6: with TARGET.cfg in the template, the mapping of a main file destined
\* for <root>/w holds <root>/w.cfg, taken from TARGET.cfg, and no
\* <root>/TARGET.cfg.
C6_PlaceholderRenamed ==
    (Built(last) /\ hasTemplate /\ Name("TARGET", ".cfg") \in DOMAIN tmpl) =>
       /\ \E i \in 1..Len(last.mapping) :
             /\ last.mapping[i].source = TmplId(Name("TARGET", ".cfg"))
             /\ last.mapping[i].dest
                  = Append(last.root, Name(Leaf(last.mainDest).stem, ".cfg"))
       /\ ~HasKey(last.mapping, Append(last.root, Name("TARGET", ".cfg")))

\* C10: every entry of the mapping gets one outcome, decided by what its
\* destination was when the call started; new and update write the source's
\* bytes, unchanged and error leave the destination as it was and the loop
\* goes on; updated says whether some entry was new or update.
C10_Outcomes ==
    (Built(last) /\ ~dirty) =>
       /\ Len(last.outcomes) = Len(last.mapping)
       /\ \A i \in 1..Len(last.mapping) :
             LET dest == last.mapping[i].dest
                 bytes == ReadBytes(last.mapping[i].source)
                 o == last.outcomes[i]
             IN /\ o \in {"unchanged", "update", "error", "new"}
                /\ o = "unchanged" <=> (IsFile(outBefore, dest) /\ outBefore[dest].data = bytes)
                /\ o = "update" <=> (IsFile(outBefore, dest) /\ outBefore[dest].data # bytes)
                /\ o = "error" <=> (Exists(outBefore, dest) /\ ~IsFile(outBefore, dest))
                /\ o = "new" <=> ~Exists(outBefore, dest)
                /\ o \in {"new", "update"} => (IsFile(out, dest) /\ out[dest].data = bytes)
                /\ o \in {"unchanged", "error"} => out[dest] = outBefore[dest]
       /\ last.updated <=> \E i \in 1..Len(last.outcomes) : last.outcomes[i] \in {"new", "update"}
       /\ last.writes = Cardinality({i \in 1..Len(last.outcomes) :
                                        last.outcomes[i] \in {"new", "update"}})

C10_Witness ==
    /\ Built(last) /\ ~dirty
    /\ \A o \in {"unchanged", "update", "error", "new"} : InSeq(o, last.outcomes)
    /\ \E i \in 1..Len(last.outcomes) :
          last.outcomes[i] = "error" /\ i < Len(last.outcomes)

----------------------------------------------------------------------------
(* Two calls in a row *)

\* C2 as stated: after a call, a second call with no file edited in between
\* finds every entry unchanged and writes nothing.
C2_SecondRunAllUnchanged ==
    (TwoCalls /\ ~editedBetween) =>
       /\ \A i \in 1..Len(last.outcomes) : last.outcomes[i] = "unchanged"
       /\ last.writes = 0 /\ last.archived = <<>>

\* C2, amended: when both calls resolve the destination alike, the second call
\* finds every entry unchanged, or in conflict as in the first call, and
\* writes nothing.
C2_SecondRunWritesNothing ==
    (TwoCalls /\ ~editedBetween
       /\ last.root = prev.root /\ last.mainDest = prev.mainDest) =>
       /\ last.mapping = prev.mapping
       /\ \A i \in 1..Len(last.outcomes) :
             \/ last.outcomes[i] = "unchanged"
             \/ last.outcomes[i] = "error" /\ prev.outcomes[i] = "error"
       /\ last.writes = 0 /\ last.archived = <<>>
       /\ out = outBefore

C2_Witness ==
    /\ TwoCalls /\ ~editedBetween
    /\ last.root = prev.root /\ last.mainDest = prev.mainDest
    /\ prev.writes >= 2
    /\ InSeq("unchanged", last.outcomes) /\ InSeq("error", last.outcomes)
    /\ last.writes = 0

\* The files below an archive directory are those of the mapping, each with
\* the bytes of its source.
SnapshotIs(fs, rec, apath) ==
    /\ IsDir(fs, apath)
    /\ {q \in DOMAIN fs : IsPrefix(apath, q) /\ q # apath}
         = {apath \o SubSeq(rec.mapping[i].dest, Len(rec.root) + 1,
                            Len(rec.mapping[i].dest)) : i \in 1..Len(rec.mapping)}
    /\ \A i \in 1..Len(rec.mapping) :
          LET q == apath \o SubSeq(rec.mapping[i].dest, Len(rec.root) + 1,
                                   Len(rec.mapping[i].dest))
          IN IsFile(fs, q) /\ fs[q].data = ReadBytes(rec.mapping[i].source)

SameDayEdited ==
    /\ TwoCalls /\ editedBetween /\ ~dirty
    /\ prev.result = "ok" /\ last.result = "ok"
    /\ prev.day = last.day
    /\ archive # <<>>

\* C4 as stated: two calls on one day with a file edited in between leave in
\* the day's snapshot exactly the second call's mapping.
C4_SnapshotIsSecondRun ==
    SameDayEdited =>
       \A j \in 1..Len(archive) :
           SnapshotIs(out, last, ArchivePath(last.root, archive[j], last.day))

\* C4, amended: so it is when the second call wrote a new or updated file.
C4_SnapshotIsSecondRunWhenUpdated ==
    (SameDayEdited /\ last.updated) =>
       /\ Len(last.archived) = Len(archive)
       /\ \A j \in 1..Len(archive) :
             SnapshotIs(out, last, ArchivePath(last.root, archive[j], last.day))

\* The first call left in the snapshot a file the second mapping does not hold.
C4_Witness ==
    /\ SameDayEdited /\ last.updated
    /\ prev.archived = last.archived /\ prev.archived # <<>>
    /\ \E i \in 1..Len(prev.mapping) : ~HasKey(last.mapping, prev.mapping[i].dest)

----------------------------------------------------------------------------
(* main *)

WriteFailed(rec) == rec.result # "ok" \/ InSeq("error", rec.outcomes)

\* C5: main returns 0 when it deployed and no write failed, and 1 when the
\* operator declined after a failed prerequisite or a write failed.
C5_ExitCode ==
    runs > 0 =>
       /\ (proceeded /\ ~WriteFailed(last)) => exitCode = 0
       /\ ~proceeded => exitCode = 1
       /\ (proceeded /\ WriteFailed(last)) => exitCode = 1

----------------------------------------------------------------------------
(* get_dependencies and find_deployables *)

\* C3: get_dependencies returns, on any import graph of the directory, and
\* no file is twice in the list it returns.
C3_TerminatesWithoutDuplicates ==
    /\ <>(gdpc = "done")
    /\ [](NoDuplicates(deps))

\* The main file imports itself or is imported back, and the call returned.
C3_Witness ==
    /\ gdpc = "done"
    /\ InSeq(MainFile, deps)
    /\ InSeq(Name("b", ".py"), deps)
    /\ \E i \in 1..Len(src[Name("b", ".py")]) : src[Name("b", ".py")][i].arg = "a"

InWindow(i) == i \in 1..Min(Len(lines), Window)

====
